---- MODULE Spec2Model ----
(***************************************************************************)
(* Model of the LLTC4J export scripts (Thomsch/export-lltc4j).             *)
(*                                                                         *)
(* The core is label_lines (src/export_lltc4j.py), the routine that turns  *)
(* the manual line labels of diff hunks into (source, target, group)       *)
(* ground-truth rows.  A hunk's content is a string; it is modelled as a   *)
(* sequence of one-character strings so that str.splitlines and            *)
(* str.startswith are computed, not assumed.  An optional integer (None or *)
(* an int) is the empty sequence or a one-element sequence.                *)
(***************************************************************************)
EXTENDS Integers, Sequences, FiniteSets, TLC

VARIABLES
    hunks,      \* the argument of label_lines: a sequence of Hunk documents
    pc,         \* "call": nothing run yet; "returned" / "raised": label_lines
                \* ended; for a commit, the name of the function that ran
    result,     \* the DataFrame label_lines returned (NoFrame before / on error)
    commit,     \* the Commit document the per-commit functions are given
    ground_truth_commit_frame,  \* what export_ground_truth_for_commit returned
    tangled_changes_count,      \* what count_tangled_changes, or a count
                                \* function called on hunks, returned
    stdout,     \* the commit rows export_commit_hashes printed
    truth_csv,  \* the truth.csv files on disk: items (directory, frame)
    commits_hashes,           \* the rows gathered for lltc4j-commits.csv
    exported_commits_counter, \* the commits export_lltc4j has exported
    result_utb, \* what export_ground_truth_for_hunks returned: [raised, frame]
    args,       \* the positional arguments export_commit_hashes is called with
    database,   \* the Project documents, each with its VCS url and its commits
    number,     \* the argument "number" of export_lltc4j: None or an int
    cursor,     \* the place of the two loops of export_lltc4j
    early_exit, \* the flag early_exit of export_lltc4j
    truth_writes,   \* the to_csv calls made on a truth.csv
    examined,   \* the commits given to export_ground_truth_for_commit by the
                \* loop, as (project, commit) places in the database
    commits_csv     \* lltc4j-commits.csv: None, or the rows written to it

labelVars == <<hunks, result>>
commitVars == <<commit, ground_truth_commit_frame, tangled_changes_count,
                stdout, truth_csv, commits_hashes, exported_commits_counter>>
runVars == <<result_utb, args, database, number, cursor, early_exit,
             truth_writes, examined, commits_csv>>
vars == <<hunks, pc, result, commit, ground_truth_commit_frame,
          tangled_changes_count, stdout, truth_csv, commits_hashes,
          exported_commits_counter, result_utb, args, database, number,
          cursor, early_exit, truth_writes, examined, commits_csv>>

----------------------------------------------------------------------------
(* Bounds of the model.                                                    *)

\* Most hunks in the argument of one label_lines call.
MaxHunks == 2
\* Most lines in the content of one hunk.
MaxLines == 2
\* Most offsets listed under one label of lines_verified.
MaxOffsets == 2

\* Most parents of a commit.
MaxParents == 2
\* Most file actions of a commit.
MaxFileActions == 2
\* Most directories in the path of a file.
MaxDirs == 2
\* Most labels in the lines_verified of a hunk given to a count function.
MaxLabels == 3
\* Most selected projects in the database, most commits in all of them,
\* and the largest "number" export_lltc4j is given.
MaxProjects == 2
MaxCommits == 3
MaxNumber == 2

\* Line numbers at which a hunk may start (old_start, new_start).
StartLines == {1, 2}

----------------------------------------------------------------------------
(* Python values.                                                          *)

None == <<>>
Some(n) == <<n>>

\* src/export_lltc4j.py:77-90
LINE_LABELS ==
    {"test", "refactoring", "unrelated", "bugfix", "documentation", "None",
     "test_doc_whitespace", "whitespace", "no_bugfix"}
LINE_LABELS_CODE_FIX == {"bugfix"}
LINE_LABELS_CODE_NO_FIX == {"refactoring", "unrelated", "no_bugfix"}
LINE_LABELS_CODE == LINE_LABELS_CODE_FIX \cup LINE_LABELS_CODE_NO_FIX

\* str.splitlines on a string over an alphabet whose only line boundary is
\* "\n": a boundary ends the current line (an empty one included); what
\* follows the last boundary is a line only when it is not empty.
RECURSIVE SplitFrom(_, _, _, _)
SplitFrom(s, k, cur, out) ==
    IF k > Len(s)
    THEN IF cur = <<>> THEN out ELSE Append(out, cur)
    ELSE IF s[k] = "\n"
         THEN SplitFrom(s, k + 1, <<>>, Append(out, cur))
         ELSE SplitFrom(s, k + 1, Append(cur, s[k]), out)

splitlines(s) == SplitFrom(s, 1, <<>>, <<>>)

\* str.startswith with a one-character prefix.
startswith(line, prefix) == Len(line) >= 1 /\ line[1] = prefix

\* Python list indexing lst[i]: 0 <= i < len is the i-th item, -len <= i < 0
\* counts from the end, anything else raises IndexError.
IndexInRange(lst, i) == (0 - Len(lst)) <= i /\ i < Len(lst)
ListItem(lst, i) == IF i >= 0 THEN lst[i + 1] ELSE lst[Len(lst) + i + 1]

\* pd.DataFrame(ground_truth, columns=["source", "target", "group"])
Columns == <<"source", "target", "group">>
DataFrame(rows) == [columns |-> Columns, rows |-> rows]
NoFrame == [columns |-> <<>>, rows |-> <<>>]

\* s.endswith(suffix) and sub in s, on strings as character sequences.
endswith(s, suffix) ==
    /\ Len(s) >= Len(suffix)
    /\ SubSeq(s, Len(s) - Len(suffix) + 1, Len(s)) = suffix
contains(s, sub) ==
    \E k \in 1..(Len(s) - Len(sub) + 1) : SubSeq(s, k, k + Len(sub) - 1) = sub

\* The string literals of the file filters.
STR_DOT_JAVA == <<".", "j", "a", "v", "a">>
STR_TEST_JAVA == <<"T", "e", "s", "t", ".", "j", "a", "v", "a">>
STR_TESTS_JAVA == <<"T", "e", "s", "t", "s", ".", "j", "a", "v", "a">>
STR_SRC_TEST == <<"s", "r", "c", "/", "t", "e", "s", "t">>
STR_TEST_SLASH == <<"t", "e", "s", "t", "/">>
STR_TESTS_SLASH == <<"t", "e", "s", "t", "s", "/">>

\* No Commit document (the state of a run that is given none).
NoCommit ==
    [labels |-> <<>>, parents |-> <<>>, revision_hash |-> <<>>, file_actions |-> <<>>]

----------------------------------------------------------------------------
(* label_lines, src/export_lltc4j.py:118-163.                              *)

\* (variant: the deleted line numbered in the new file)
source_line_number_new_start(hunk, i) == hunk.new_start + i

\* line 146
source_line_number(hunk, i) == hunk.old_start + i

\* (variant: old_lines not subtracted, as src/export_lltc4j_utb.py:172 has it)
target_line_number_no_old_lines(hunk, i) == hunk.new_start + i

\* (variant: the added lines subtracted instead of the deleted ones)
target_line_number_less_new_lines(hunk, i) == hunk.new_start + i - hunk.new_lines

\* line 148
target_line_number(hunk, i) == hunk.new_start + i - hunk.old_lines

\* (variant: no label is skipped)
is_code_label_any(label) == TRUE

\* line 138: the labels whose offsets are looked at
is_code_label(label) == label \in LINE_LABELS_CODE

\* (variant: every code label is put in the bugfix group)
group_of_all_bugfix(label) ==
    IF label \in LINE_LABELS_CODE THEN "bugfix" ELSE label

\* lines 153-158
group_of(label) ==
    IF label \in LINE_LABELS_CODE_FIX THEN "bugfix"
    ELSE IF label \in LINE_LABELS_CODE_NO_FIX THEN "nonbugfix"
    ELSE label

\* (variant: the "continue" of line 151 is missing, a context line gets a row)
rows_for_offset_no_continue(hunk, hunk_content_by_line, label, i) ==
    LET line == ListItem(hunk_content_by_line, i) IN
    << [source |-> IF startswith(line, "-")
                   THEN Some(source_line_number(hunk, i)) ELSE None,
        target |-> IF ~startswith(line, "-") /\ startswith(line, "+")
                   THEN Some(target_line_number(hunk, i)) ELSE None,
        group  |-> group_of(label)] >>

\* lines 142-160, the body of "for i in offset_line_numbers" once line i is
\* known to exist: the rows it appends to ground_truth (none for a context
\* line).
rows_for_offset(hunk, hunk_content_by_line, label, i) ==
    LET line == ListItem(hunk_content_by_line, i) IN
    IF startswith(line, "-")
    THEN << [source |-> Some(source_line_number(hunk, i)),
             target |-> None,
             group  |-> group_of(label)] >>
    ELSE IF startswith(line, "+")
    THEN << [source |-> None,
             target |-> Some(target_line_number(hunk, i)),
             group  |-> group_of(label)] >>
    ELSE << >>

\* (variant: a context line ends the loop over the offsets, "break" for
\* "continue" at line 151)
RECURSIVE label_offsets_break(_, _, _, _, _, _)
label_offsets_break(hunk, hunk_content_by_line, label, offsets, k, run) ==
    IF run.raised \/ k > Len(offsets) THEN run
    ELSE IF ~IndexInRange(hunk_content_by_line, offsets[k])
    THEN [raised |-> TRUE, ground_truth |-> run.ground_truth]
    ELSE IF rows_for_offset(hunk, hunk_content_by_line, label, offsets[k]) = <<>>
    THEN run
    ELSE label_offsets_break(hunk, hunk_content_by_line, label, offsets, k + 1,
            [raised |-> FALSE,
             ground_truth |-> run.ground_truth \o
                 rows_for_offset(hunk, hunk_content_by_line, label, offsets[k])])

\* lines 141-160: the loop over the offsets of one label.  The state of the
\* run is [raised, ground_truth]; an offset outside the content raises
\* IndexError at line 145 and ends the run.
RECURSIVE label_offsets(_, _, _, _, _, _)
label_offsets(hunk, hunk_content_by_line, label, offsets, k, run) ==
    IF run.raised \/ k > Len(offsets) THEN run
    ELSE IF ~IndexInRange(hunk_content_by_line, offsets[k])
    THEN [raised |-> TRUE, ground_truth |-> run.ground_truth]
    ELSE label_offsets(hunk, hunk_content_by_line, label, offsets, k + 1,
            [raised |-> FALSE,
             ground_truth |-> run.ground_truth \o
                 rows_for_offset(hunk, hunk_content_by_line, label, offsets[k])])

\* lines 137-160: the loop over hunk.lines_verified.items()
RECURSIVE label_entries(_, _, _, _)
label_entries(hunk, hunk_content_by_line, k, run) ==
    IF run.raised \/ k > Len(hunk.lines_verified) THEN run
    ELSE LET entry == hunk.lines_verified[k] IN
         label_entries(hunk, hunk_content_by_line, k + 1,
            IF ~is_code_label(entry.label) THEN run
            ELSE label_offsets(hunk, hunk_content_by_line, entry.label,
                               entry.offsets, 1, run))

\* (variant: the rows of a hunk are put before the rows gathered so far)
label_hunk_prepend(hunk, run) ==
    LET own == label_entries(hunk, splitlines(hunk.content), 1,
                             [raised |-> run.raised, ground_truth |-> <<>>])
    IN  [raised |-> own.raised,
         ground_truth |-> own.ground_truth \o run.ground_truth]

\* (variant: offsets are numbered on from the lines of the earlier hunks,
\* one row per line so far)
label_hunk_renumbered(hunk, run) ==
    label_entries([hunk EXCEPT !.old_start = @ + Len(run.ground_truth),
                               !.new_start = @ + Len(run.ground_truth)],
                  splitlines(hunk.content), 1, run)

\* lines 134-160: the body of "for hunk in hunks"
label_hunk(hunk, run) ==
    label_entries(hunk, splitlines(hunk.content), 1, run)

\* lines 132-160: the loop over the hunks
RECURSIVE label_hunks(_, _, _)
label_hunks(hs, k, run) ==
    IF run.raised \/ k > Len(hs) THEN run
    ELSE label_hunks(hs, k + 1, label_hunk(hs[k], run))

\* lines 132-163: the run of label_lines on hs
label_lines(hs) == label_hunks(hs, 1, [raised |-> FALSE, ground_truth |-> <<>>])

----------------------------------------------------------------------------
(* The hunks label_lines is called on.                                     *)

SeqsUpTo(S, n) == UNION {[1..k -> S] : k \in 0..n}

\* The lines of a diff: a deletion, an addition, and a context line whose
\* text holds both markers after its leading blank.
DiffLines == {<<"-">>, <<"+">>, <<" ", "-", "+">>}

\* "\n".join(content), src/test_export_lltc4j.py:46
RECURSIVE join(_)
join(lines) ==
    IF lines = <<>> THEN <<>>
    ELSE IF Len(lines) = 1 THEN lines[1]
    ELSE lines[1] \o <<"\n">> \o join(Tail(lines))

CountLines(lines, marker) ==
    Cardinality({k \in 1..Len(lines) : startswith(lines[k], marker)})

\* old_lines of a hunk with these lines: the deleted lines
\* (make_hunk, src/test_export_lltc4j.py:29-45) or, as a unified diff
\* counts them, the deleted and the context lines.
OldLinesOf(lines) ==
    {CountLines(lines, "-"), Len(lines) - CountLines(lines, "+")}

\* Offsets a label may list for a content of n lines: every line, the first
\* index past the end, and -1.
OffsetsOf(lines) == (0 - 1)..Len(lines)

\* Labels of lines_verified: the taxonomy and one label outside it.
InputLabels == LINE_LABELS \cup {"unkown_label"}
\* One label of each kind, for the hunks that carry two labels.
SampleLabels == {"bugfix", "no_bugfix", "test"}

\* lines_verified is a dict: a sequence of (label, offsets) items in
\* insertion order, no label twice.
OneLabelDicts(lines) ==
    {<<>>} \cup
    {<<[label |-> l, offsets |-> offs]>> :
        l \in SampleLabels, offs \in SeqsUpTo(OffsetsOf(lines), MaxOffsets)}

AnyLabelDicts(lines) ==
    {<<[label |-> l, offsets |-> <<i>>]>> :
        l \in InputLabels \ SampleLabels, i \in OffsetsOf(lines)}

TwoLabelDicts(lines) ==
    {<<[label |-> ls[1], offsets |-> <<i1>>], [label |-> ls[2], offsets |-> <<i2>>]>> :
        ls \in {p \in SampleLabels \X SampleLabels : p[1] # p[2]},
        i1 \in OffsetsOf(lines), i2 \in OffsetsOf(lines)}

\* A Hunk document (pycoshark's Hunk, as src/test_export_lltc4j.py:41-48
\* builds it).
MakeHunk(old_start, new_start, old_lines, lines, lines_verified) ==
    [old_start |-> old_start, new_start |-> new_start,
     old_lines |-> old_lines,
     new_lines |-> CountLines(lines, "+"),
     content |-> join(lines), lines_verified |-> lines_verified]

\* Hunks called on together with others, as the tests of several hunks
\* build them: one changed line, one label, one offset (the line, or the
\* index past it).
ShortDicts(lines) ==
    {<<[label |-> l, offsets |-> <<i>>]>> : l \in SampleLabels, i \in 0..Len(lines)}

ShortHunks ==
    UNION {
        {MakeHunk(os, ns, CountLines(lines, "-"), lines, lv) :
            os \in StartLines, ns \in StartLines, lv \in ShortDicts(lines)} :
        lines \in {<< <<"-">> >>, << <<"+">> >>}}

----------------------------------------------------------------------------
(* The specification: one call of label_lines.                             *)

\* The state of the functions that are not run: no call of the second
\* labeller, no database, no run of the export loop.
NoRun == [raised |-> FALSE, frame |-> NoFrame]
NoCursor == [project |-> 0, commit |-> 0]
NothingRun ==
    /\ result_utb = NoRun
    /\ args = <<>>
    /\ database = <<>>
    /\ number = None
    /\ cursor = NoCursor
    /\ early_exit = FALSE
    /\ truth_writes = 0
    /\ examined = <<>>
    /\ commits_csv = None

\* label_lines is called on one hunk (any content of up to MaxLines lines;
\* one sample label with up to MaxOffsets offsets, one label of any other
\* kind with one offset, or two sample labels with one offset each), on no
\* hunk, or on 2..MaxHunks short hunks.
Init ==
    /\ pc = "call"
    /\ result = NoFrame
    /\ commit = NoCommit
    /\ ground_truth_commit_frame = None
    /\ tangled_changes_count = 0
    /\ stdout = <<>>
    /\ truth_csv = <<>>
    /\ commits_hashes = <<>>
    /\ exported_commits_counter = 0
    /\ NothingRun
    /\ \/ \E lines \in SeqsUpTo(DiffLines, MaxLines), os \in StartLines, ns \in StartLines :
            \E ol \in OldLinesOf(lines),
               lv \in OneLabelDicts(lines) \cup AnyLabelDicts(lines)
                       \cup TwoLabelDicts(lines) :
                hunks = <<MakeHunk(os, ns, ol, lines, lv)>>
       \/ \E n \in {0} \cup 2..MaxHunks : hunks \in [1..n -> ShortHunks]

\* label_lines(hunks) runs to line 161 and returns the frame.
LabelLinesReturns ==
    /\ pc = "call"
    /\ ~label_lines(hunks).raised
    /\ result' = DataFrame(label_lines(hunks).ground_truth)
    /\ pc' = "returned"
    /\ UNCHANGED <<hunks, commitVars, runVars>>

\* label_lines(hunks) raises IndexError at line 145: nothing is returned.
LabelLinesRaises ==
    /\ pc = "call"
    /\ label_lines(hunks).raised
    /\ pc' = "raised"
    /\ UNCHANGED <<hunks, result, commitVars, runVars>>

Next == LabelLinesReturns \/ LabelLinesRaises

Spec == Init /\ [][Next]_vars

----------------------------------------------------------------------------
(* export_ground_truth_for_hunks, src/export_lltc4j_utb.py:142-185: the    *)
(* labeller of the second export script.                                   *)

\* line 170
hunks_source_line_number(hunk, i) == hunk.old_start + i

\* (variant: old_lines subtracted, as src/export_lltc4j.py:148 has it)
hunks_target_line_number_less_old_lines(hunk, i) ==
    hunk.new_start + i - hunk.old_lines

\* line 172
hunks_target_line_number(hunk, i) == hunk.new_start + i

\* lines 177-182
hunks_group_of(label) ==
    IF label \in LINE_LABELS_CODE_FIX THEN "bugfix"
    ELSE IF label \in LINE_LABELS_CODE_NO_FIX THEN "nonbugfix"
    ELSE label

\* lines 166-184: the rows one offset appends
hunks_rows_for_offset(hunk, hunk_content_by_line, label, i) ==
    LET line == ListItem(hunk_content_by_line, i) IN
    IF startswith(line, "-")
    THEN << [source |-> Some(hunks_source_line_number(hunk, i)),
             target |-> None,
             group  |-> hunks_group_of(label)] >>
    ELSE IF startswith(line, "+")
    THEN << [source |-> None,
             target |-> Some(hunks_target_line_number(hunk, i)),
             group  |-> hunks_group_of(label)] >>
    ELSE << >>

\* lines 165-184: the loop over the offsets of one label; line 169 raises
\* IndexError for an offset outside the content
RECURSIVE hunks_offsets(_, _, _, _, _, _)
hunks_offsets(hunk, hunk_content_by_line, label, offsets, k, run) ==
    IF run.raised \/ k > Len(offsets) THEN run
    ELSE IF ~IndexInRange(hunk_content_by_line, offsets[k])
    THEN [raised |-> TRUE, ground_truth |-> run.ground_truth]
    ELSE hunks_offsets(hunk, hunk_content_by_line, label, offsets, k + 1,
            [raised |-> FALSE,
             ground_truth |-> run.ground_truth \o
                 hunks_rows_for_offset(hunk, hunk_content_by_line, label,
                                       offsets[k])])

\* lines 161-184: the loop over hunk.lines_verified.items()
RECURSIVE hunks_entries(_, _, _, _)
hunks_entries(hunk, hunk_content_by_line, k, run) ==
    IF run.raised \/ k > Len(hunk.lines_verified) THEN run
    ELSE LET entry == hunk.lines_verified[k] IN
         hunks_entries(hunk, hunk_content_by_line, k + 1,
            IF entry.label \notin LINE_LABELS_CODE THEN run
            ELSE hunks_offsets(hunk, hunk_content_by_line, entry.label,
                               entry.offsets, 1, run))

\* lines 158-184: the loop over the hunks
RECURSIVE hunks_from(_, _, _)
hunks_from(hs, k, run) ==
    IF run.raised \/ k > Len(hs) THEN run
    ELSE hunks_from(hs, k + 1,
            hunks_entries(hs[k], splitlines(hs[k].content), 1, run))

\* line 185: astype({"source": "Int64", "target": "Int64"}) keeps an int
\* and keeps a missing value missing
astype_Int64(rows) ==
    [k \in 1..Len(rows) |->
        [source |-> IF Len(rows[k].source) = 0 THEN None
                    ELSE Some(rows[k].source[1]),
         target |-> IF Len(rows[k].target) = 0 THEN None
                    ELSE Some(rows[k].target[1]),
         group |-> rows[k].group]]

\* lines 142-185: the run of export_ground_truth_for_hunks on hs
export_ground_truth_for_hunks(hs) ==
    LET run == hunks_from(hs, 1, [raised |-> FALSE, ground_truth |-> <<>>])
    IN  [raised |-> run.raised, ground_truth |-> astype_Int64(run.ground_truth)]

\* export_ground_truth_for_hunks(hunks) returns its frame
ExportGroundTruthForHunksReturns ==
    /\ pc # "call"
    /\ result_utb = NoRun
    /\ ~export_ground_truth_for_hunks(hunks).raised
    /\ result_utb' =
          [raised |-> FALSE,
           frame |-> DataFrame(export_ground_truth_for_hunks(hunks).ground_truth)]
    /\ UNCHANGED <<pc, labelVars, commitVars, args, database, number, cursor,
                   early_exit, truth_writes, examined, commits_csv>>

\* export_ground_truth_for_hunks(hunks) raises IndexError at line 169
ExportGroundTruthForHunksRaises ==
    /\ pc # "call"
    /\ result_utb = NoRun
    /\ export_ground_truth_for_hunks(hunks).raised
    /\ result_utb' = [raised |-> TRUE, frame |-> NoFrame]
    /\ UNCHANGED <<pc, labelVars, commitVars, args, database, number, cursor,
                   early_exit, truth_writes, examined, commits_csv>>

\* The two labellers are called, one after the other, on the same hunks.
NextVariants ==
    \/ LabelLinesReturns
    \/ LabelLinesRaises
    \/ ExportGroundTruthForHunksReturns
    \/ ExportGroundTruthForHunksRaises

SpecVariants == Init /\ [][NextVariants]_vars

----------------------------------------------------------------------------
(* The per-commit functions of the three scripts.                          *)

\* key in d and d[key] for a dict given as its sequence of items.
HasKey(d, key) == \E k \in 1..Len(d) : d[k].key = key
ValueOf(d, key) == d[CHOOSE k \in 1..Len(d) : d[k].key = key].value

\* (variant: a merge commit passes, only a commit without parent is refused)
is_exported_commit_any_parent(c) ==
    /\ c.labels # None
    /\ HasKey(c.labels[1], "validated_bugfix")
    /\ ValueOf(c.labels[1], "validated_bugfix")
    /\ Len(c.parents) >= 1

\* The condition on a commit: src/export_lltc4j.py:174-179,
\* src/export_lltc4j_utb.py:131-136 and 193-198,
\* src/list_tangled_commits.py:123-128.
is_exported_commit(c) ==
    /\ c.labels # None
    /\ HasKey(c.labels[1], "validated_bugfix")
    /\ ValueOf(c.labels[1], "validated_bugfix")
    /\ Len(c.parents) = 1

\* src/export_lltc4j.py:182-191: the file of a file action
export_file(fa) ==
    IF fa.old_file # None /\ fa.mode # "R" THEN fa.old_file[1] ELSE fa.file[1]

\* src/export_lltc4j.py:193-198: the files that are skipped
export_skips(path) ==
    \/ ~endswith(path, STR_DOT_JAVA)
    \/ endswith(path, STR_TEST_JAVA)
    \/ contains(path, STR_SRC_TEST)

\* src/export_lltc4j.py:200-201: label_lines on the hunks of the file action,
\* with the column "file" added
FileColumns == <<"source", "target", "group", "file">>
with_file(rows, path) ==
    [k \in 1..Len(rows) |->
        [source |-> rows[k].source, target |-> rows[k].target,
         group |-> rows[k].group, file |-> path]]

\* src/export_lltc4j.py:180-202: the loop over the file actions; the state
\* of the run is [raised, file_frames], a frame being its rows.
RECURSIVE export_file_actions(_, _, _)
export_file_actions(fas, k, run) ==
    IF run.raised \/ k > Len(fas) THEN run
    ELSE IF export_skips(export_file(fas[k]))
    THEN export_file_actions(fas, k + 1, run)
    ELSE LET labelled == label_lines(fas[k].hunks) IN
         IF labelled.raised
         THEN [raised |-> TRUE, file_frames |-> run.file_frames]
         ELSE export_file_actions(fas, k + 1,
                [raised |-> FALSE,
                 file_frames |-> Append(run.file_frames,
                     with_file(labelled.ground_truth, export_file(fas[k])))])

\* pd.concat(file_frames)
RECURSIVE concat(_)
concat(frames) ==
    IF frames = <<>> THEN <<>> ELSE frames[1] \o concat(Tail(frames))

\* src/export_lltc4j.py:166-206: [raised, frame], frame None or a DataFrame
export_ground_truth_for_commit(c) ==
    IF is_exported_commit(c)
    THEN LET run == export_file_actions(c.file_actions, 1,
                        [raised |-> FALSE, file_frames |-> <<>>])
         IN  IF run.raised THEN [raised |-> TRUE, frame |-> None]
             ELSE IF Len(run.file_frames) = 0 THEN [raised |-> FALSE, frame |-> None]
             ELSE [raised |-> FALSE,
                   frame |-> Some([columns |-> FileColumns,
                                   rows |-> concat(run.file_frames)])]
    ELSE [raised |-> FALSE, frame |-> None]

\* src/list_tangled_commits.py:46-52: the loop over the offsets of one label.
\* line_labels, a defaultlist, is the function from the indices assigned so
\* far to their label; any other index reads as None.  The state of the run
\* is [raised, count, line_labels]; printing the tangled line raises
\* IndexError when the content has no such line.
RECURSIVE tangled_offsets(_, _, _, _, _)
tangled_offsets(hunk_content_by_line, label, offsets, k, run) ==
    IF run.raised \/ k > Len(offsets) THEN run
    ELSE LET i == offsets[k]
             tangled == i \in DOMAIN run.line_labels
             assigned == [j \in DOMAIN run.line_labels \cup {i} |->
                             IF j = i THEN label ELSE run.line_labels[j]]
         IN  IF tangled /\ ~IndexInRange(hunk_content_by_line, i)
             THEN [raised |-> TRUE, count |-> run.count + 1,
                   line_labels |-> run.line_labels]
             ELSE tangled_offsets(hunk_content_by_line, label, offsets, k + 1,
                    [raised |-> FALSE,
                     count |-> IF tangled THEN run.count + 1 ELSE run.count,
                     line_labels |-> assigned])

\* src/list_tangled_commits.py:46-52: the loop over lines_verified.items()
RECURSIVE tangled_entries(_, _, _, _)
tangled_entries(hunk, hunk_content_by_line, k, run) ==
    IF run.raised \/ k > Len(hunk.lines_verified) THEN run
    ELSE tangled_entries(hunk, hunk_content_by_line, k + 1,
            tangled_offsets(hunk_content_by_line, hunk.lines_verified[k].label,
                            hunk.lines_verified[k].offsets, 1, run))

\* src/list_tangled_commits.py:41-53: the loop over the hunks, [raised, count]
RECURSIVE tangled_lines_from(_, _, _)
tangled_lines_from(hs, k, run) ==
    IF run.raised \/ k > Len(hs) THEN run
    ELSE LET r == tangled_entries(hs[k], splitlines(hs[k].content), 1,
                    [raised |-> FALSE, count |-> run.count, line_labels |-> <<>>])
         IN  tangled_lines_from(hs, k + 1, [raised |-> r.raised, count |-> r.count])

\* src/list_tangled_commits.py:34-53
count_tangled_lines(hs) == tangled_lines_from(hs, 1, [raised |-> FALSE, count |-> 0])

\* src/list_tangled_commits.py:68-78: the loop over the labels of one hunk,
\* the state of the run is [count, seen_labels]
RECURSIVE tangled_hunk_labels(_, _, _)
tangled_hunk_labels(lines_verified, k, run) ==
    IF k > Len(lines_verified) THEN run
    ELSE LET label == lines_verified[k].label IN
         IF label \notin LINE_LABELS_CODE
         THEN tangled_hunk_labels(lines_verified, k + 1, run)
         ELSE LET seen == IF label \in LINE_LABELS_CODE_FIX
                          THEN run.seen_labels \cup {"fix"}
                          ELSE IF label \in LINE_LABELS_CODE_NO_FIX
                          THEN run.seen_labels \cup {"nofix"}
                          ELSE run.seen_labels
              IN  tangled_hunk_labels(lines_verified, k + 1,
                    [count |-> IF Cardinality(seen) = 2
                               THEN run.count + 1 ELSE run.count,
                     seen_labels |-> seen])

\* src/list_tangled_commits.py:63-79: the loop over the hunks
RECURSIVE tangled_hunks_from(_, _, _)
tangled_hunks_from(hs, k, count) ==
    IF k > Len(hs) THEN count
    ELSE tangled_hunks_from(hs, k + 1,
            tangled_hunk_labels(hs[k].lines_verified, 1,
                [count |-> count, seen_labels |-> {}]).count)

\* src/list_tangled_commits.py:56-79, as [raised, count]
count_tangled_hunks(hs) == [raised |-> FALSE, count |-> tangled_hunks_from(hs, 1, 0)]

\* src/list_tangled_commits.py:82-98
is_java_file(path) == endswith(path, STR_DOT_JAVA)
is_test_file(path) ==
    \/ contains(path, STR_TEST_SLASH)
    \/ contains(path, STR_TESTS_SLASH)
    \/ endswith(path, STR_TEST_JAVA)
    \/ endswith(path, STR_TESTS_JAVA)

\* src/list_tangled_commits.py:101-115
get_changed_file(fa) == IF fa.file # None THEN fa.file[1] ELSE fa.old_file[1]

\* The granularity functions, src/list_tangled_commits.py:146-149
Granularities == {"hunk", "line"}
granularity_count_func(granularity, hs) ==
    IF granularity = "hunk" THEN count_tangled_hunks(hs) ELSE count_tangled_lines(hs)

\* src/list_tangled_commits.py:129-133: the loop over the file actions
RECURSIVE tangled_file_actions(_, _, _, _)
tangled_file_actions(fas, granularity, k, run) ==
    IF run.raised \/ k > Len(fas) THEN run
    ELSE IF ~is_java_file(get_changed_file(fas[k]))
            \/ is_test_file(get_changed_file(fas[k]))
    THEN tangled_file_actions(fas, granularity, k + 1, run)
    ELSE LET r == granularity_count_func(granularity, fas[k].hunks) IN
         tangled_file_actions(fas, granularity, k + 1,
            [raised |-> r.raised, count |-> run.count + r.count])

\* src/list_tangled_commits.py:118-134, as [raised, count]
count_tangled_changes(c, granularity) ==
    IF is_exported_commit(c)
    THEN tangled_file_actions(c.file_actions, granularity, 1,
                              [raised |-> FALSE, count |-> 0])
    ELSE [raised |-> FALSE, count |-> 0]

----------------------------------------------------------------------------
(* The commits the per-commit functions are given.                         *)

\* Paths of the files of a commit.
PathSource == <<"a", "/", "A", ".", "j", "a", "v", "a">>
PathTestClass == <<"a", "/", "A", "T", "e", "s", "t", ".", "j", "a", "v", "a">>
PathTestDir == <<"s", "r", "c", "/", "t", "e", "s", "t", "/", "A", ".", "j", "a", "v", "a">>
PathText == <<"a", "/", "A", ".", "m", "d">>
Paths == {PathSource, PathTestClass, PathTestDir, PathText}

\* The hunks of a file action: one bug-fixing deletion; or a changed line
\* with a second label on the added line, in the fix and the non-fix group.
PlainHunks ==
    << MakeHunk(1, 1, 1, << <<"-">> >>,
                <<[label |-> "bugfix", offsets |-> <<0>>]>>) >>
TangledHunks ==
    << MakeHunk(1, 1, 1, << <<"-">>, <<"+">> >>,
                <<[label |-> "bugfix", offsets |-> <<0, 1>>],
                  [label |-> "refactoring", offsets |-> <<1>>]>>) >>

\* FileAction documents: a change of a file, a rename from a test class, a
\* copy of a test class.
FileActions ==
    {[mode |-> mo[1], old_file |-> mo[2], file |-> Some(path), hunks |-> hs] :
        mo \in {<<"M", None>>, <<"R", Some(PathTestClass)>>,
                <<"C", Some(PathTestClass)>>},
        path \in Paths, hs \in {PlainHunks, TangledHunks}}

\* commit.labels: None, or a dict with or without the key validated_bugfix.
LabelDicts ==
    {<<>>,
     <<[key |-> "adjustedszz_bugfix", value |-> TRUE]>>,
     <<[key |-> "validated_bugfix", value |-> FALSE]>>,
     <<[key |-> "validated_bugfix", value |-> TRUE]>>,
     <<[key |-> "adjustedszz_bugfix", value |-> TRUE],
       [key |-> "validated_bugfix", value |-> FALSE]>>,
     <<[key |-> "adjustedszz_bugfix", value |-> FALSE],
       [key |-> "validated_bugfix", value |-> TRUE]>>}
CommitLabels == {None} \cup {Some(d) : d \in LabelDicts}

\* The hashes of the parents of a commit with n parents.
ParentsOf(n) == [k \in 1..n |-> <<"p", k>>]

RevisionHash == <<"0", "a", "1", "b", "2", "c", "3", "d">>

\* The project and the repository of the commit.
ProjectName == <<"g", "o", "r", "a">>
VcsUrl == "https://github.com/apache/gora.git"

\* A commit of the repository: any labels, up to MaxParents parents, up to
\* MaxFileActions file actions.
InitOneCommit ==
    \E ls \in CommitLabels, n \in 0..MaxParents :
        \E k \in 0..MaxFileActions :
            \E fas \in [1..k -> FileActions] :
                commit = [labels |-> ls, parents |-> ParentsOf(n),
                          revision_hash |-> RevisionHash, file_actions |-> fas]

----------------------------------------------------------------------------
(* The specification of the per-commit functions: each is run on a commit. *)

InitCommit ==
    /\ pc = "call"
    /\ hunks = <<>>
    /\ result = NoFrame
    /\ InitOneCommit
    /\ ground_truth_commit_frame = None
    /\ tangled_changes_count = 0
    /\ stdout = <<>>
    /\ truth_csv = <<>>
    /\ commits_hashes = <<>>
    /\ exported_commits_counter = 0
    /\ NothingRun

\* export_ground_truth_for_commit(commit), src/export_lltc4j.py:166-206
ExportGroundTruthForCommit ==
    /\ pc = "call"
    /\ LET r == export_ground_truth_for_commit(commit) IN
        /\ pc' = IF r.raised THEN "raised" ELSE "export_ground_truth_for_commit"
        /\ ground_truth_commit_frame' = r.frame
    /\ UNCHANGED <<labelVars, commit, tangled_changes_count, stdout, truth_csv,
                   commits_hashes, exported_commits_counter, runVars>>

\* count_tangled_changes(commit, granularity_count_func),
\* src/list_tangled_commits.py:118-134
CountTangledChanges ==
    /\ pc = "call"
    /\ \E granularity \in Granularities :
        LET r == count_tangled_changes(commit, granularity) IN
        /\ pc' = IF r.raised THEN "raised" ELSE "count_tangled_changes"
        /\ tangled_changes_count' = IF r.raised THEN 0 ELSE r.count
    /\ UNCHANGED <<labelVars, commit, ground_truth_commit_frame, stdout,
                   truth_csv, commits_hashes, exported_commits_counter, runVars>>

\* The body of the commit loop of export_commit_hashes,
\* src/export_lltc4j_utb.py:130-139
ExportCommitHashesBody ==
    /\ pc = "call"
    /\ pc' = "export_commit_hashes"
    /\ stdout' = IF is_exported_commit(commit)
                 THEN Append(stdout, <<ProjectName, VcsUrl, commit.revision_hash,
                                       commit.parents[1]>>)
                 ELSE stdout
    /\ UNCHANGED <<labelVars, commit, ground_truth_commit_frame,
                   tangled_changes_count, truth_csv, commits_hashes,
                   exported_commits_counter, runVars>>

\* os.path.join(out_dir, f"{project.name}_{commit.revision_hash[:6]}"),
\* src/export_lltc4j.py:265-267
HashPrefixLen == 6
commit_dir(name, revision_hash) ==
    name \o <<"_">> \o SubSeq(revision_hash, 1,
                              IF Len(revision_hash) < HashPrefixLen
                              THEN Len(revision_hash) ELSE HashPrefixLen)

\* to_csv on a path: the file is created or overwritten
write_file(files, path, frame) ==
    IF \E k \in 1..Len(files) : files[k].path = path
    THEN [k \in 1..Len(files) |->
            IF files[k].path = path THEN [path |-> path, frame |-> frame]
            ELSE files[k]]
    ELSE Append(files, [path |-> path, frame |-> frame])

\* ground_truth_commit_frame.reindex(columns=[...]), src/export_lltc4j.py:260-262
reindex(frame) ==
    [columns |-> <<"file", "source", "target", "group">>, rows |-> frame.rows]

\* (variant: a frame without rows is exported too, "len(...) > 0" missing)
has_code_change_any_frame(frame) == frame # None

\* src/export_lltc4j.py:255-258: the commit has ground truth to export
has_code_change(frame) == frame # None /\ Len(frame[1].rows) > 0

\* src/export_lltc4j.py:254-277: what one pass of the commit loop does with
\* commit c of the project called name whose repository is at url
export_commit(c, name, url) ==
    LET r == export_ground_truth_for_commit(c) IN
    /\ ground_truth_commit_frame' = r.frame
    /\ IF ~r.raised /\ has_code_change(r.frame)
       THEN /\ truth_csv' = write_file(truth_csv, commit_dir(name, c.revision_hash),
                                       reindex(r.frame[1]))
            /\ truth_writes' = truth_writes + 1
            /\ commits_hashes' = Append(commits_hashes,
                    <<url, c.revision_hash, c.parents[1]>>)
            /\ exported_commits_counter' = exported_commits_counter + 1
       ELSE UNCHANGED <<truth_csv, truth_writes, commits_hashes,
                        exported_commits_counter>>

\* The body of the commit loop of export_lltc4j, src/export_lltc4j.py:254-277
ExportLltc4jBody ==
    /\ pc = "call"
    /\ pc' = IF export_ground_truth_for_commit(commit).raised
             THEN "raised" ELSE "export_lltc4j"
    /\ export_commit(commit, ProjectName, VcsUrl)
    /\ UNCHANGED <<labelVars, commit, tangled_changes_count, stdout, result_utb,
                   args, database, number, cursor, early_exit, examined,
                   commits_csv>>

NextCommit ==
    \/ ExportGroundTruthForCommit
    \/ CountTangledChanges
    \/ ExportCommitHashesBody
    \/ ExportLltc4jBody

SpecCommit == InitCommit /\ [][NextCommit]_vars

----------------------------------------------------------------------------
(* export_lltc4j, src/export_lltc4j.py:241-288: the loops over the         *)
(* projects and their commits.                                             *)

\* The selected projects, Project.objects(name__in=projects), in the order
\* the database gives them, and the url of the repository of each.
ProjectNames ==
    << <<"g", "o", "r", "a">>, <<"e", "a", "g", "l", "e">>,
       <<"g", "i", "r", "a", "p", "h">>, <<"w", "s", "s", "4", "j">> >>
VcsUrls ==
    << "https://github.com/apache/gora.git", "https://github.com/apache/eagle.git",
       "https://github.com/apache/giraph.git", "https://github.com/apache/wss4j.git" >>

\* A hunk whose one label is not about code.
DocHunks ==
    << MakeHunk(1, 1, 1, << <<"-">> >>,
                <<[label |-> "documentation", offsets |-> <<0>>]>>) >>

\* A commit that changes the source file a/A.java.
SourceCommit(validated, n, revision_hash, hs) ==
    [labels |-> Some(<<[key |-> "validated_bugfix", value |-> validated]>>),
     parents |-> ParentsOf(n), revision_hash |-> revision_hash,
     file_actions |-> <<[mode |-> "M", old_file |-> None,
                         file |-> Some(PathSource), hunks |-> hs]>>]

\* The commits of a repository: three validated bug fixes with labelled
\* code lines, the hashes of the first two alike in their first six
\* characters; a validated bug fix whose labelled lines are documentation;
\* a validated merge.  Each has its own hash.
LoopCommits ==
    {SourceCommit(TRUE, 1, <<"0", "a", "1", "b", "2", "c", "3", "d">>, PlainHunks),
     SourceCommit(TRUE, 1, <<"0", "a", "1", "b", "2", "c", "9", "9">>, TangledHunks),
     SourceCommit(TRUE, 1, <<"f", "f", "0", "0", "f", "f", "0", "0">>, TangledHunks),
     SourceCommit(TRUE, 1, <<"1", "2", "3", "4", "5", "6", "7", "b">>, DocHunks),
     SourceCommit(TRUE, 2, <<"8", "9", "a", "b", "c", "d", "e", "f">>, PlainHunks)}

RECURSIVE Sum(_)
Sum(sizes) == IF sizes = <<>> THEN 0 ELSE sizes[1] + Sum(Tail(sizes))

\* The database whose p-th project holds sizes[p] commits, taken in order
\* from the list all.
MakeDatabase(sizes, all) ==
    [p \in 1..Len(sizes) |->
        [name |-> ProjectNames[p], url |-> VcsUrls[p],
         commits |-> SubSeq(all, Sum(SubSeq(sizes, 1, p - 1)) + 1,
                                 Sum(SubSeq(sizes, 1, p)))]]

\* No two commits of one repository have the same hash.
HashesDiffer(db) ==
    \A p \in 1..Len(db) : \A j, k \in 1..Len(db[p].commits) :
        j # k => db[p].commits[j].revision_hash # db[p].commits[k].revision_hash

\* The database holds up to MaxProjects selected projects and up to
\* MaxCommits commits in all.
InitDatabase ==
    \E np \in 0..MaxProjects :
        \E sizes \in [1..np -> 0..MaxCommits] :
            /\ Sum(sizes) <= MaxCommits
            /\ \E all \in [1..Sum(sizes) -> LoopCommits] :
                  /\ HashesDiffer(MakeDatabase(sizes, all))
                  /\ database = MakeDatabase(sizes, all)

InitExport ==
    /\ pc = "call"
    /\ hunks = <<>>
    /\ result = NoFrame
    /\ commit = NoCommit
    /\ ground_truth_commit_frame = None
    /\ tangled_changes_count = 0
    /\ stdout = <<>>
    /\ truth_csv = <<>>
    /\ commits_hashes = <<>>
    /\ exported_commits_counter = 0
    /\ result_utb = NoRun
    /\ args = <<>>
    /\ InitDatabase
    /\ \E n \in (0 - 1)..MaxNumber : number = IF n < 0 THEN None ELSE Some(n)
    /\ cursor = NoCursor
    /\ early_exit = FALSE
    /\ truth_writes = 0
    /\ examined = <<>>
    /\ commits_csv = None

\* (variant: the loop stops one commit late, ">" for ">=" at line 250)
limit_reached_late(n, counter) == n # None /\ counter > n[1]

\* line 250: number is not None and exported_commits_counter >= number
limit_reached(n, counter) == n # None /\ counter >= n[1]

\* lines 245-247: the project loop takes the next project
ForProject ==
    /\ pc \in {"call", "projects"}
    /\ cursor.project < Len(database)
    /\ cursor' = [project |-> cursor.project + 1, commit |-> 0]
    /\ pc' = "commits"
    /\ UNCHANGED <<labelVars, commitVars, result_utb, args, database, number,
                   early_exit, truth_writes, examined, commits_csv>>

\* lines 248-252 and 279-280: enough commits are exported; both loops end
ForCommitEarlyExit ==
    /\ pc = "commits"
    /\ cursor.commit < Len(database[cursor.project].commits)
    /\ limit_reached(number, exported_commits_counter)
    /\ early_exit' = TRUE
    /\ pc' = "write"
    /\ UNCHANGED <<labelVars, commitVars, result_utb, args, database, number,
                   cursor, truth_writes, examined, commits_csv>>

\* lines 248-277: the commit loop takes the next commit and runs its body
ForCommitExport ==
    /\ pc = "commits"
    /\ cursor.commit < Len(database[cursor.project].commits)
    /\ ~limit_reached(number, exported_commits_counter)
    /\ LET project == database[cursor.project]
           c == project.commits[cursor.commit + 1]
       IN  /\ commit' = c
           /\ examined' = Append(examined, <<cursor.project, cursor.commit + 1>>)
           /\ export_commit(c, project.name, project.url)
           /\ pc' = IF export_ground_truth_for_commit(c).raised
                    THEN "raised" ELSE "commits"
    /\ cursor' = [cursor EXCEPT !.commit = @ + 1]
    /\ UNCHANGED <<labelVars, tangled_changes_count, stdout, result_utb, args,
                   database, number, early_exit, commits_csv>>

\* lines 248 and 279: the commits of the project are used up
EndOfCommits ==
    /\ pc = "commits"
    /\ cursor.commit = Len(database[cursor.project].commits)
    /\ pc' = "projects"
    /\ UNCHANGED <<labelVars, commitVars, runVars>>

\* lines 282-288: lltc4j-commits.csv is written, the count is printed
WriteCommitsCsv ==
    /\ \/ pc \in {"call", "projects"} /\ cursor.project = Len(database)
       \/ pc = "write"
    /\ commits_csv' = Some(commits_hashes)
    /\ pc' = "done"
    /\ UNCHANGED <<labelVars, commitVars, result_utb, args, database, number,
                   cursor, early_exit, truth_writes, examined>>

NextExport ==
    \/ ForProject
    \/ ForCommitEarlyExit
    \/ ForCommitExport
    \/ EndOfCommits
    \/ WriteCommitsCsv

SpecExport == InitExport /\ [][NextExport]_vars

----------------------------------------------------------------------------
(* export_commit_hashes, src/export_lltc4j_utb.py:110-139.                 *)

\* line 110: the parameters of export_commit_hashes, all required
export_commit_hashes_parameters == <<"args">>

\* line 119: the header line, as its fields
HeaderLine == <<"project_name", "vcs_url", "commit_hash", "parent_hash">>

\* lines 130-139: the lines printed for the commits cs of a project
RECURSIVE project_hash_rows(_, _, _)
project_hash_rows(project, k, out) ==
    IF k > Len(project.commits) THEN out
    ELSE project_hash_rows(project, k + 1,
            IF is_exported_commit(project.commits[k])
            THEN Append(out, <<project.name, project.url,
                               project.commits[k].revision_hash,
                               project.commits[k].parents[1]>>)
            ELSE out)

\* lines 126-139: the loop over the repositories of the selected projects
RECURSIVE hash_rows(_, _, _)
hash_rows(db, p, out) ==
    IF p > Len(db) THEN out
    ELSE hash_rows(db, p + 1, project_hash_rows(db[p], 1, out))

InitHashes ==
    /\ pc = "call"
    /\ hunks = <<>>
    /\ result = NoFrame
    /\ commit = NoCommit
    /\ ground_truth_commit_frame = None
    /\ tangled_changes_count = 0
    /\ stdout = <<>>
    /\ truth_csv = <<>>
    /\ commits_hashes = <<>>
    /\ exported_commits_counter = 0
    /\ result_utb = NoRun
    /\ args \in {<<>>, <<"Namespace">>}
    /\ InitDatabase
    /\ number = None
    /\ cursor = NoCursor
    /\ early_exit = FALSE
    /\ truth_writes = 0
    /\ examined = <<>>
    /\ commits_csv = None

\* export_commit_hashes(*args) returns: the call binds its one parameter,
\* line 119 prints the header, lines 126-139 print the commits.
ExportCommitHashesReturns ==
    /\ pc = "call"
    /\ Len(args) = Len(export_commit_hashes_parameters)
    /\ stdout' = <<HeaderLine>> \o hash_rows(database, 1, <<>>)
    /\ pc' = "export_commit_hashes"
    /\ UNCHANGED <<labelVars, commit, ground_truth_commit_frame,
                   tangled_changes_count, truth_csv, commits_hashes,
                   exported_commits_counter, runVars>>

\* export_commit_hashes(*args) raises TypeError: the arguments do not match
\* the parameters of line 110, the body does not run.
ExportCommitHashesRaises ==
    /\ pc = "call"
    /\ Len(args) # Len(export_commit_hashes_parameters)
    /\ pc' = "raised"
    /\ UNCHANGED <<labelVars, commitVars, runVars>>

NextHashes == ExportCommitHashesReturns \/ ExportCommitHashesRaises

SpecHashes == InitHashes /\ [][NextHashes]_vars

----------------------------------------------------------------------------
(* The two count functions of the tangle listing, called on hunks.         *)

\* Labels of the hunks: the fix label, two non-fix labels, one label that
\* is not about code.
TangleLabels == {"bugfix", "refactoring", "unrelated", "test"}

\* The sequences of n different labels.
DistinctLabels(n) ==
    {ls \in [1..n -> TangleLabels] : \A j, k \in 1..n : j # k => ls[j] # ls[k]}

\* lines_verified with up to MaxLabels labels that list one line each, or
\* with one label that lists up to MaxOffsets different lines; every offset
\* is a line of the content.
TangleDicts(lines) ==
    UNION {
        {[k \in 1..n |-> [label |-> ls[k], offsets |-> <<is[k]>>]] :
            ls \in DistinctLabels(n), is \in [1..n -> 0..(Len(lines) - 1)]} :
        n \in 0..MaxLabels}
    \cup
    {<<[label |-> l, offsets |-> offs]>> :
        l \in {"bugfix"},
        offs \in {q \in SeqsUpTo(0..(Len(lines) - 1), MaxOffsets) :
                    \A j, k \in 1..Len(q) : j # k => q[j] # q[k]}}

\* Hunks counted together with others: a changed line, its labels all on
\* the deleted line.
TangleShortHunks ==
    {MakeHunk(1, 1, 1, << <<"-">>, <<"+">> >>,
              [k \in 1..Len(ls) |-> [label |-> ls[k], offsets |-> <<0>>]]) :
        ls \in {<<"bugfix">>, <<"bugfix", "refactoring">>, <<"test", "bugfix">>,
                <<"refactoring", "unrelated">>,
                <<"unrelated", "bugfix", "refactoring">>}}

InitTangle ==
    /\ pc = "call"
    /\ result = NoFrame
    /\ commit = NoCommit
    /\ ground_truth_commit_frame = None
    /\ tangled_changes_count = 0
    /\ stdout = <<>>
    /\ truth_csv = <<>>
    /\ commits_hashes = <<>>
    /\ exported_commits_counter = 0
    /\ NothingRun
    /\ \/ \E lines \in SeqsUpTo(DiffLines, MaxLines) \ {<<>>} :
            \E lv \in TangleDicts(lines) :
                hunks = <<MakeHunk(1, 1, CountLines(lines, "-"), lines, lv)>>
       \/ \E n \in {0} \cup 2..MaxHunks : hunks \in [1..n -> TangleShortHunks]

\* count_tangled_lines(hunks, commit_hash), src/list_tangled_commits.py:34-53
CountTangledLines ==
    /\ pc = "call"
    /\ LET r == count_tangled_lines(hunks) IN
        /\ pc' = IF r.raised THEN "raised" ELSE "count_tangled_lines"
        /\ tangled_changes_count' = IF r.raised THEN 0 ELSE r.count
    /\ UNCHANGED <<labelVars, commit, ground_truth_commit_frame, stdout,
                   truth_csv, commits_hashes, exported_commits_counter, runVars>>

\* count_tangled_hunks(hunks, commit_hash), src/list_tangled_commits.py:56-79
CountTangledHunks ==
    /\ pc = "call"
    /\ LET r == count_tangled_hunks(hunks) IN
        /\ pc' = "count_tangled_hunks"
        /\ tangled_changes_count' = r.count
    /\ UNCHANGED <<labelVars, commit, ground_truth_commit_frame, stdout,
                   truth_csv, commits_hashes, exported_commits_counter, runVars>>

NextTangle == CountTangledLines \/ CountTangledHunks

SpecTangle == InitTangle /\ [][NextTangle]_vars

----------------------------------------------------------------------------
(* The file filters, run on a validated bug fix that changes one file.     *)

\* File.path: directories and a file name, joined by "/".
DirNames ==
    {<<"a">>, <<"s", "r", "c">>, <<"t", "e", "s", "t">>,
     <<"t", "e", "s", "t", "s">>, <<"l", "a", "t", "e", "s", "t">>}
FileNames ==
    {<<"A", ".", "j", "a", "v", "a">>,
     <<"A", "T", "e", "s", "t", ".", "j", "a", "v", "a">>,
     <<"A", "T", "e", "s", "t", "s", ".", "j", "a", "v", "a">>,
     <<"A", ".", "m", "d">>}

RECURSIVE path_of(_, _)
path_of(dirs, name) ==
    IF dirs = <<>> THEN name
    ELSE dirs[1] \o <<"/">> \o path_of(Tail(dirs), name)

\* The file action of the commit: a change of the file at the path, or a
\* rename of a test class to it; its hunk holds a tangled line.
FilterFileActions(path) ==
    {[mode |-> mo[1], old_file |-> mo[2], file |-> Some(path), hunks |-> TangledHunks] :
        mo \in {<<"M", None>>, <<"R", Some(PathTestClass)>>}}

InitFilter ==
    /\ pc = "call"
    /\ hunks = <<>>
    /\ result = NoFrame
    /\ \E dirs \in SeqsUpTo(DirNames, MaxDirs), name \in FileNames :
          \E fa \in FilterFileActions(path_of(dirs, name)) :
              commit = [labels |-> Some(<<[key |-> "validated_bugfix", value |-> TRUE]>>),
                        parents |-> ParentsOf(1), revision_hash |-> RevisionHash,
                        file_actions |-> <<fa>>]
    /\ ground_truth_commit_frame = None
    /\ tangled_changes_count = 0
    /\ stdout = <<>>
    /\ truth_csv = <<>>
    /\ commits_hashes = <<>>
    /\ exported_commits_counter = 0
    /\ NothingRun

NextFilter == ExportGroundTruthForCommit \/ CountTangledChanges

SpecFilter == InitFilter /\ [][NextFilter]_vars

----------------------------------------------------------------------------
(* Vocabulary of the properties of label_lines.  A listing is one offset   *)
(* of one label of one hunk of the argument: <<h, e, o>> is the o-th       *)
(* offset of the e-th item of lines_verified of the h-th hunk.             *)

Listings ==
    UNION { UNION { {<<h, e, o>> : o \in 1..Len(hunks[h].lines_verified[e].offsets)} :
                    e \in 1..Len(hunks[h].lines_verified)} :
            h \in 1..Len(hunks)}

HunkOf(t) == hunks[t[1]]
LabelOf(t) == hunks[t[1]].lines_verified[t[2]].label
OffsetOf(t) == hunks[t[1]].lines_verified[t[2]].offsets[t[3]]
ContentLines(t) == splitlines(hunks[t[1]].content)

\* The code-relevant labels, as the data model names them.
CodeRelevant(label) == label \in {"bugfix", "refactoring", "unrelated", "no_bugfix"}

\* The offset is an index of the hunk's content, counted from 0.
ValidOffset(t) == 0 <= OffsetOf(t) /\ OffsetOf(t) < Len(ContentLines(t))

\* The line a listing is read from (Python counts a negative index from the end).
ReadLine(t) == ListItem(ContentLines(t), OffsetOf(t))
IsDeletion(t) == IndexInRange(ContentLines(t), OffsetOf(t)) /\ startswith(ReadLine(t), "-")
IsAddition(t) == IndexInRange(ContentLines(t), OffsetOf(t)) /\ startswith(ReadLine(t), "+")
IsContext(t) ==
    IndexInRange(ContentLines(t), OffsetOf(t)) /\ ~IsDeletion(t) /\ ~IsAddition(t)

\* The listings that yield a row, and the iteration order of the three loops.
Emitting == {t \in Listings : CodeRelevant(LabelOf(t)) /\ (IsDeletion(t) \/ IsAddition(t))}
Before(u, t) ==
    \/ u[1] < t[1]
    \/ u[1] = t[1] /\ u[2] < t[2]
    \/ u[1] = t[1] /\ u[2] = t[2] /\ u[3] < t[3]
\* The place of a listing's row when rows come in iteration order.
RowIndex(t) == 1 + Cardinality({u \in Emitting : Before(u, t)})
HasRow(t) == RowIndex(t) <= Len(result.rows)
RowOf(t) == result.rows[RowIndex(t)]

----------------------------------------------------------------------------
(* Properties of label_lines.                                              *)

\* C1: for every hunk and every offset i listed under a code-relevant label
\* whose content line i starts with "+", the emitted record has
\* target = new_start + i - old_lines and source = None.
C1_AdditionTarget ==
    pc = "returned" =>
        \A t \in Listings :
            (CodeRelevant(LabelOf(t)) /\ ValidOffset(t) /\ IsAddition(t)) =>
                /\ HasRow(t)
                /\ RowOf(t).target =
                     <<HunkOf(t).new_start + OffsetOf(t) - HunkOf(t).old_lines>>
                /\ RowOf(t).source = <<>>

\* An addition below a deleted line was labelled: old_lines and the offset
\* are both above zero.
C1_Witness ==
    /\ pc = "returned"
    /\ \E t \in Listings :
        /\ CodeRelevant(LabelOf(t)) /\ ValidOffset(t) /\ IsAddition(t)
        /\ OffsetOf(t) > 0 /\ HunkOf(t).old_lines > 0
        /\ HunkOf(t).old_start # HunkOf(t).new_start

\* C2: for every hunk and every offset i listed under a code-relevant label
\* whose content line i starts with "-", the emitted record has
\* source = old_start + i and target = None.
C2_DeletionSource ==
    pc = "returned" =>
        \A t \in Listings :
            (CodeRelevant(LabelOf(t)) /\ ValidOffset(t) /\ IsDeletion(t)) =>
                /\ HasRow(t)
                /\ RowOf(t).source = <<HunkOf(t).old_start + OffsetOf(t)>>
                /\ RowOf(t).target = <<>>

C2_Witness ==
    /\ pc = "returned"
    /\ \E t \in Listings :
        /\ CodeRelevant(LabelOf(t)) /\ ValidOffset(t) /\ IsDeletion(t)
        /\ OffsetOf(t) > 0 /\ HunkOf(t).old_lines > 0
        /\ HunkOf(t).old_start # HunkOf(t).new_start

\* C3: every record returned by label_lines has exactly one of source and
\* target present: never both and never neither.
C3_ExactlyOneLine ==
    \A k \in 1..Len(result.rows) :
        /\ Len(result.rows[k].source) + Len(result.rows[k].target) = 1

\* A frame holding a deletion row and an addition row was returned.
C3_Witness ==
    /\ pc = "returned"
    /\ \E j, k \in 1..Len(result.rows) :
        result.rows[j].source # <<>> /\ result.rows[k].target # <<>>

\* The group the label taxonomy gives a code-relevant label.
GroupOfLabel(label) == IF label = "bugfix" THEN "bugfix" ELSE "nonbugfix"

\* C4: an offset under "bugfix" yields group "bugfix"; one under
\* "refactoring", "unrelated" or "no_bugfix" yields group "nonbugfix"; one
\* under any other label yields no record and no error.  No record has a
\* group other than "bugfix" or "nonbugfix".
C4_LabelGroups ==
    /\ pc = "returned" =>
        /\ \A t \in Emitting :
              HasRow(t) /\ RowOf(t).group = GroupOfLabel(LabelOf(t))
        /\ Len(result.rows) = Cardinality(Emitting)
        /\ \A k \in 1..Len(result.rows) :
              result.rows[k].group \in {"bugfix", "nonbugfix"}
    /\ pc = "raised" =>
        \E t \in Listings :
            CodeRelevant(LabelOf(t)) /\ ~IndexInRange(ContentLines(t), OffsetOf(t))

\* A hunk lists one changed line under "test" and one under "no_bugfix":
\* the frame returned holds the one "nonbugfix" row.
C4_Witness ==
    /\ pc = "returned"
    /\ Len(result.rows) = 1 /\ result.rows[1].group = "nonbugfix"
    /\ \E t, u \in Listings :
          /\ LabelOf(t) = "test" /\ (IsDeletion(t) \/ IsAddition(t))
          /\ LabelOf(u) = "no_bugfix" /\ (IsDeletion(u) \/ IsAddition(u))

\* C5: an offset whose content line starts with neither "-" nor "+"
\* produces no record, whatever its label, and does not stop the processing
\* of the remaining offsets, labels and hunks.
C5_ContextSkipped ==
    pc = "returned" =>
        /\ Len(result.rows) =
              Cardinality({t \in Listings : CodeRelevant(LabelOf(t)) /\ ~IsContext(t)})
        /\ \A c \in Listings, t \in Emitting :
              (IsContext(c) /\ Before(c, t)) =>
                  /\ HasRow(t)
                  /\ (RowOf(t).source # <<>>) = IsDeletion(t)
                  /\ (RowOf(t).target # <<>>) = IsAddition(t)

\* A context line listed under a code-relevant label was followed by a
\* changed line, whose row was returned.
C5_Witness ==
    /\ pc = "returned"
    /\ Len(result.rows) >= 1
    /\ \E c \in Listings, t \in Emitting :
          CodeRelevant(LabelOf(c)) /\ IsContext(c) /\ Before(c, t)

\* C6: the records are in hunk-then-offset order: the rows of an earlier
\* hunk precede those of a later one, and within a hunk the rows follow the
\* order in which lines_verified lists the offsets; nothing is sorted.
C6_IterationOrder ==
    pc = "returned" =>
        /\ Len(result.rows) = Cardinality(Emitting)
        /\ \A t \in Emitting :
              /\ HasRow(t)
              /\ <<RowOf(t)>> = rows_for_offset(HunkOf(t), ContentLines(t),
                                                LabelOf(t), OffsetOf(t))

\* Two hunks gave one row each, and the row of the first hunk has the
\* larger line number: sorted, the rows would come the other way round.
C6_Witness ==
    /\ pc = "returned"
    /\ Len(hunks) = 2
    /\ Len(result.rows) = 2
    /\ result.rows[1].source # <<>> /\ result.rows[2].source # <<>>
    /\ result.rows[1].source[1] > result.rows[2].source[1]

\* C7: label_lines returns the frame without rows, columns source, target,
\* group, for the empty hunk list and for every hunk sequence in which no
\* hunk lists an offset under a code-relevant label; a code-relevant label
\* with no offsets contributes nothing.
C7_NothingLabelled ==
    (\A t \in Listings : ~CodeRelevant(LabelOf(t))) =>
        /\ pc # "raised"
        /\ pc = "returned" =>
              result = [columns |-> <<"source", "target", "group">>, rows |-> <<>>]

\* The frame was returned for two hunks that each list their changed line,
\* but under no code-relevant label.
C7_Witness ==
    /\ pc = "returned"
    /\ Len(hunks) = 2
    /\ \A t \in Listings : ~CodeRelevant(LabelOf(t))
    /\ \A h \in 1..Len(hunks) :
          \E t \in Listings : t[1] = h /\ (IsDeletion(t) \/ IsAddition(t))

\* C8: hunks are processed independently: for all hunk sequences A and B,
\* label_lines(A ++ B) is label_lines(A) followed by label_lines(B) (and
\* fails when one of the two fails); offsets are not renumbered across
\* hunks.
C8_HunksIndependent ==
    \A k \in 0..Len(hunks) :
        LET A == label_lines(SubSeq(hunks, 1, k))
            B == label_lines(SubSeq(hunks, k + 1, Len(hunks)))
        IN  /\ pc = "returned" =>
                /\ ~A.raised /\ ~B.raised
                /\ result.rows = A.ground_truth \o B.ground_truth
            /\ pc = "raised" => (A.raised \/ B.raised)

\* Two hunks that start at different lines each gave a row.
C8_Witness ==
    /\ pc = "returned"
    /\ Len(hunks) = 2
    /\ Len(result.rows) = 2
    /\ hunks[1].old_start # hunks[2].old_start
    /\ hunks[1].new_start # hunks[2].new_start

\* C9: when a hunk lists, under a code-relevant label, an offset that is
\* not a valid index of its content (negative, or at least the number of
\* content lines), label_lines fails and returns no result.
C9_InvalidOffsetRaises ==
    (\E t \in Listings : CodeRelevant(LabelOf(t)) /\ ~ValidOffset(t)) =>
        pc # "returned"

\* The hunk of a listing holds only deletion and addition lines, every
\* deletion before every addition, and its old_lines is the number of its
\* deletion lines.
DeletionsThenAdditions(t) ==
    LET lines == ContentLines(t) IN
    /\ \A k \in 1..Len(lines) : Len(lines[k]) >= 1 /\ lines[k][1] \in {"-", "+"}
    /\ \A j, k \in 1..Len(lines) :
          (lines[j][1] = "+" /\ lines[k][1] = "-") => k < j
    /\ HunkOf(t).old_lines =
          Cardinality({k \in 1..Len(lines) : lines[k][1] = "-"})

\* The lines with the marker that come before the line of the listing.
LinesBefore(t, marker) ==
    Cardinality({k \in 1..OffsetOf(t) :
                    Len(ContentLines(t)[k]) >= 1 /\ ContentLines(t)[k][1] = marker})

\* C19: for a hunk that holds only deletion and addition lines, the
\* deletions first, and whose old_lines is its number of deletion lines,
\* the k-th deletion line (k from 0) gets source = old_start + k and the
\* k-th addition line gets target = new_start + k.
C19_PairedPositions ==
    pc = "returned" =>
        \A t \in Listings :
            (CodeRelevant(LabelOf(t)) /\ ValidOffset(t) /\ DeletionsThenAdditions(t)) =>
                /\ HasRow(t)
                /\ IsDeletion(t) =>
                      RowOf(t).source = <<HunkOf(t).old_start + LinesBefore(t, "-")>>
                /\ IsAddition(t) =>
                      RowOf(t).target = <<HunkOf(t).new_start + LinesBefore(t, "+")>>

\* A hunk of one deletion followed by one addition had its addition
\* labelled: the row has the hunk's new_start as target.
C19_Witness ==
    /\ pc = "returned"
    /\ \E t \in Listings :
          /\ CodeRelevant(LabelOf(t)) /\ ValidOffset(t) /\ DeletionsThenAdditions(t)
          /\ IsAddition(t) /\ OffsetOf(t) > 0 /\ HunkOf(t).old_lines > 0
          /\ HasRow(t) /\ RowOf(t).target = <<HunkOf(t).new_start>>

\* Both labellers have run on the hunks.
BothRan == pc # "call" /\ result_utb # [raised |-> FALSE, frame |-> NoFrame]

\* C18: label_lines and export_ground_truth_for_hunks, run on the same
\* hunks, return the same number of records in the same order with the same
\* source and group; they differ only in the target of an addition record,
\* larger by that hunk's old_lines in export_ground_truth_for_hunks.  The
\* two outputs are equal if and only if every hunk that yields an addition
\* record has old_lines = 0.
C18_VariantsDiffer ==
    BothRan =>
        /\ (pc = "raised") = result_utb.raised
        /\ pc = "returned" =>
              /\ Len(result_utb.frame.rows) = Len(result.rows)
              /\ \A k \in 1..Len(result.rows) :
                    /\ result_utb.frame.rows[k].source = result.rows[k].source
                    /\ result_utb.frame.rows[k].group = result.rows[k].group
                    /\ Len(result_utb.frame.rows[k].target) = Len(result.rows[k].target)
              /\ \A t \in Emitting :
                    IsAddition(t) =>
                        result_utb.frame.rows[RowIndex(t)].target[1] =
                            RowOf(t).target[1] + HunkOf(t).old_lines
              /\ (result_utb.frame = result) =
                    (\A t \in Emitting : IsAddition(t) => HunkOf(t).old_lines = 0)

\* Both labellers returned a deletion row and an addition row of a hunk
\* with a deleted line: the two frames differ.
C18_Witness ==
    /\ BothRan
    /\ pc = "returned"
    /\ result_utb.frame # result
    /\ \E t, u \in Emitting :
          /\ IsDeletion(t) /\ IsAddition(u)
          /\ t[1] = u[1] /\ HunkOf(u).old_lines > 0

----------------------------------------------------------------------------
(* Properties of the per-commit functions.                                 *)

\* The commit is labelled validated_bugfix with a true value and has
\* exactly one parent.
ValidatedBugfix ==
    /\ commit.labels # <<>>
    /\ \E k \in 1..Len(commit.labels[1]) :
          commit.labels[1][k] = [key |-> "validated_bugfix", value |-> TRUE]
OneParent == Len(commit.parents) = 1

\* The commit changes a Java source file whose hunks hold labelled code
\* lines, tangled ones among them.
ChangesSource ==
    \E k \in 1..Len(commit.file_actions) :
        /\ commit.file_actions[k].mode = "M"
        /\ commit.file_actions[k].file = <<PathSource>>
        /\ commit.file_actions[k].hunks = TangledHunks

\* C10: a commit contributes output (a truth.csv, a row of the commit list,
\* a tangle count above zero) only if it is labelled validated_bugfix with a
\* true value and has exactly one parent; for every other commit
\* export_ground_truth_for_commit returns None and count_tangled_changes
\* returns 0.
C10_OnlyValidatedOneParent ==
    ~(ValidatedBugfix /\ OneParent) =>
        /\ pc # "raised"
        /\ ground_truth_commit_frame = <<>>
        /\ tangled_changes_count = 0
        /\ truth_csv = <<>>
        /\ commits_hashes = <<>>
        /\ stdout = <<>>
        /\ exported_commits_counter = 0

\* The body of the export loop ran on a validated bug fix with two parents
\* that changes a source file: nothing was exported.
C10_Witness ==
    /\ pc = "export_lltc4j"
    /\ ValidatedBugfix
    /\ Len(commit.parents) = 2
    /\ ChangesSource

\* (reachability of the other side: an exported commit, a counted tangle)
CommitExported ==
    /\ pc = "export_lltc4j" /\ ValidatedBugfix /\ OneParent
    /\ Len(truth_csv) = 1 /\ Len(commits_hashes) = 1
TangleCounted == pc = "count_tangled_changes" /\ tangled_changes_count > 0
RowPrinted == pc = "export_commit_hashes" /\ Len(stdout) = 1

----------------------------------------------------------------------------
(* Properties of the file filters.                                         *)

\* The segments of a path: what "/" separates.
RECURSIVE SegmentsFrom(_, _, _, _)
SegmentsFrom(s, k, cur, out) ==
    IF k > Len(s) THEN Append(out, cur)
    ELSE IF s[k] = "/"
         THEN SegmentsFrom(s, k + 1, <<>>, Append(out, cur))
         ELSE SegmentsFrom(s, k + 1, Append(cur, s[k]), out)
Segments(path) == SegmentsFrom(path, 1, <<>>, <<>>)

\* The path of a Java file that is no test: it ends with ".java", not with
\* "Test.java" or "Tests.java", and none of its segments is "test" or "tests".
SourcePath(path) ==
    /\ endswith(path, <<".", "j", "a", "v", "a">>)
    /\ ~endswith(path, <<"T", "e", "s", "t", ".", "j", "a", "v", "a">>)
    /\ ~endswith(path, <<"T", "e", "s", "t", "s", ".", "j", "a", "v", "a">>)
    /\ \A k \in 1..Len(Segments(path)) :
          Segments(path)[k] \notin {<<"t", "e", "s", "t">>, <<"t", "e", "s", "t", "s">>}

\* The export gives rows only to files of a source path.
ExportFilterHolds ==
    (pc = "export_ground_truth_for_commit" /\ ground_truth_commit_frame # <<>>) =>
        \A k \in 1..Len(ground_truth_commit_frame[1].rows) :
            SourcePath(ground_truth_commit_frame[1].rows[k].file)

\* The tangle listing counts only in files of a source path.
TangleFilterHolds ==
    (pc = "count_tangled_changes" /\ tangled_changes_count > 0) =>
        \E k \in 1..Len(commit.file_actions) :
            /\ commit.file_actions[k].file # <<>>
            /\ SourcePath(commit.file_actions[k].file[1])

\* C11: a file of an eligible commit contributes ground-truth rows only if
\* its path ends with ".java", does not end with "Test.java" or "Tests.java"
\* and has no "test" or "tests" segment; every other file is skipped, by the
\* filter of the export as by the filter of the tangle listing.
C11_FileFilter == ExportFilterHolds /\ TangleFilterHolds

----------------------------------------------------------------------------
(* Properties of the count functions.                                      *)

\* The labels of hunk h that list offset i.
LabelsClaiming(h, i) ==
    {e \in 1..Len(hunks[h].lines_verified) :
        \E o \in 1..Len(hunks[h].lines_verified[e].offsets) :
            hunks[h].lines_verified[e].offsets[o] = i}

\* The tangled lines: the (hunk, offset) pairs claimed by more than one label.
TangledLines ==
    {t \in Listings : Cardinality(LabelsClaiming(t[1], OffsetOf(t))) > 1}
TangledLinePairs == {<<t[1], OffsetOf(t)>> : t \in TangledLines}

\* C12: count_tangled_lines(hunks) returns the number of (hunk, offset)
\* pairs whose offset is claimed by more than one label of that hunk, each
\* counted once, offsets compared within one hunk only.
C12_TangledLinesCount ==
    /\ pc # "raised"
    /\ pc = "count_tangled_lines" =>
          tangled_changes_count = Cardinality(TangledLinePairs)

\* The labels of a hunk, by group.
HasFixLabel(h) ==
    \E e \in 1..Len(hunks[h].lines_verified) :
        hunks[h].lines_verified[e].label = "bugfix"
HasNonFixLabel(h) ==
    \E e \in 1..Len(hunks[h].lines_verified) :
        hunks[h].lines_verified[e].label \in {"refactoring", "unrelated", "no_bugfix"}

\* C13: count_tangled_hunks(hunks) returns the number of hunks whose labels
\* hold at least one fix-group label and at least one non-fix-group label,
\* each such hunk counted exactly once.
C13_TangledHunksCount ==
    pc = "count_tangled_hunks" =>
        tangled_changes_count =
            Cardinality({h \in 1..Len(hunks) : HasFixLabel(h) /\ HasNonFixLabel(h)})

----------------------------------------------------------------------------
(* Properties of export_lltc4j.                                            *)

\* The commit at a place <<p, c>> of the database, and its project.
CommitAt(e) == database[e[1]].commits[e[2]]
ProjectAt(e) == database[e[1]]

\* Every place of the database, in the order of the two loops.
RECURSIVE PlacesFrom(_)
PlacesFrom(p) ==
    IF p > Len(database) THEN <<>>
    ELSE [c \in 1..Len(database[p].commits) |-> <<p, c>>] \o PlacesFrom(p + 1)
AllPlaces == PlacesFrom(1)

\* The commit is a validated bug fix with one parent that changes, in a
\* Java source file, a line labelled as code.
CodeChange(c) ==
    /\ c.labels # <<>>
    /\ \E k \in 1..Len(c.labels[1]) :
          c.labels[1][k] = [key |-> "validated_bugfix", value |-> TRUE]
    /\ Len(c.parents) = 1
    /\ \E f \in 1..Len(c.file_actions) :
          /\ c.file_actions[f].file = <<PathSource>>
          /\ \E h \in 1..Len(c.file_actions[f].hunks) :
                LET hunk == c.file_actions[f].hunks[h]
                    lines == splitlines(hunk.content)
                IN  \E e \in 1..Len(hunk.lines_verified) :
                        /\ CodeRelevant(hunk.lines_verified[e].label)
                        /\ \E o \in 1..Len(hunk.lines_verified[e].offsets) :
                              LET i == hunk.lines_verified[e].offsets[o] IN
                              /\ 0 <= i /\ i < Len(lines)
                              /\ lines[i + 1][1] \in {"-", "+"}

\* The places of the examined commits that hold a code change.
ExportedPlaces ==
    LET Test(e) == CodeChange(CommitAt(e)) IN SelectSeq(examined, Test)

\* C14: given a number N, export_lltc4j exports at most N commits: the
\* count of exported commits never exceeds N, once it has reached N no
\* further commit is examined or written, and lltc4j-commits.csv is still
\* written at the end; with no number, every commit of every selected
\* project is examined.
\* (stated of every step of the run: the state it leaves, the state it
\* reaches, and what it may change once the count has reached N)
WithinNumber ==
    /\ number # <<>> => exported_commits_counter <= number[1]
    /\ early_exit => pc \in {"write", "done"}
    /\ pc = "done" => commits_csv = <<commits_hashes>>
    /\ (pc = "done" /\ number = <<>>) => examined = AllPlaces

C14_AtMostNumber ==
    [][/\ WithinNumber
       /\ WithinNumber'
       /\ (number # <<>> /\ exported_commits_counter >= number[1]) =>
             /\ examined' = examined
             /\ truth_csv' = truth_csv
             /\ truth_writes' = truth_writes
             /\ commits_hashes' = commits_hashes
             /\ exported_commits_counter' = exported_commits_counter]_vars

\* The run was given the number 1 and ended after the first export: a
\* commit with a code change in a later project was never examined.
C14_Witness ==
    /\ pc = "done"
    /\ number = <<1>>
    /\ exported_commits_counter = 1
    /\ commits_csv # <<>>
    /\ cursor.project < Len(database)
    /\ \E e \in {AllPlaces[k] : k \in 1..Len(AllPlaces)} :
          /\ e[1] > cursor.project
          /\ CodeChange(CommitAt(e))
          /\ \A k \in 1..Len(examined) : examined[k] # e

\* C15: a commit gets a truth.csv and a row of lltc4j-commits.csv only if
\* its ground truth has at least one row; the two are written together, so
\* the rows of lltc4j-commits.csv, the truth.csv writes and the reported
\* count are equal in number, and the rows are in the order of export.
C15_ExportedHaveCode ==
    /\ Len(commits_hashes) = truth_writes
    /\ truth_writes = exported_commits_counter
    /\ commits_hashes =
          [k \in 1..Len(ExportedPlaces) |->
              <<ProjectAt(ExportedPlaces[k]).url,
                CommitAt(ExportedPlaces[k]).revision_hash,
                CommitAt(ExportedPlaces[k]).parents[1]>>]
    /\ \A f \in 1..Len(truth_csv) : Len(truth_csv[f].frame.rows) >= 1
    /\ pc = "done" => Len(commits_csv[1]) = exported_commits_counter

\* The run ended after it examined a validated bug fix whose labelled lines
\* are all documentation, which it did not export, and exported another.
C15_Witness ==
    /\ pc = "done"
    /\ exported_commits_counter >= 1
    /\ \E k \in 1..Len(examined) :
          /\ CommitAt(examined[k]).parents = ParentsOf(1)
          /\ CommitAt(examined[k]).file_actions[1].hunks = DocHunks

\* The truth.csv of the commit at a place: in the directory named from the
\* project name and the first 6 characters of the hash.
TruthPath(e) ==
    ProjectAt(e).name \o <<"_">> \o SubSeq(CommitAt(e).revision_hash, 1, 6)

\* C20: after export_lltc4j ends, every row of lltc4j-commits.csv has its
\* own truth.csv holding the ground truth of that commit: no two exported
\* commits are written to the same truth.csv path.
C20_OwnTruthFile ==
    pc = "done" =>
        /\ \A j, k \in 1..Len(ExportedPlaces) :
              j # k => TruthPath(ExportedPlaces[j]) # TruthPath(ExportedPlaces[k])
        /\ \A k \in 1..Len(ExportedPlaces) :
              \E f \in 1..Len(truth_csv) :
                  /\ truth_csv[f].path = TruthPath(ExportedPlaces[k])
                  /\ truth_csv[f].frame.rows =
                        export_ground_truth_for_commit(
                            CommitAt(ExportedPlaces[k])).frame[1].rows

----------------------------------------------------------------------------
(* Properties of export_commit_hashes.                                     *)

\* C17: export_commit_hashes takes no parameters: called with no arguments
\* on a database that holds no selected project, it finishes without error
\* and its standard output holds the header line
\* project_name,vcs_url,commit_hash,parent_hash before any commit row.
C17_NoArguments ==
    (args = <<>> /\ database = <<>> /\ pc # "call") =>
        /\ pc = "export_commit_hashes"
        /\ stdout # <<>>
        /\ stdout[1] = <<"project_name", "vcs_url", "commit_hash", "parent_hash">>

\* (what the call with the one argument does: the header, then the rows)
HeaderFirst ==
    pc = "export_commit_hashes" =>
        /\ stdout[1] = <<"project_name", "vcs_url", "commit_hash", "parent_hash">>
        /\ Len(stdout) >= 1

====
